---------------------------- MODULE Spec2Model ----------------------------
(***************************************************************************)
(* Care-plan intake: the duplicate / provider-conflict engine of           *)
(* services.py over the two tables of database.py (care_plans, providers), *)
(* driven by POST /submit of main.py.                                      *)
(*                                                                         *)
(* Free-text names are sequences of code points, so that the two case      *)
(* conversions the program uses (SQLite's LOWER and Python's str.lower)    *)
(* are computed character by character.  MRN, NPI, diagnosis code and      *)
(* medication name are compared for equality only and stay strings.        *)
(***************************************************************************)
EXTENDS Integers, Sequences, FiniteSets, TLC

(***************************************************************************)
(* Bounds of the model.                                                    *)
(***************************************************************************)
\* rows the care_plans table may hold (cap of the AUTOINCREMENT counter)
MaxPlans == 2
\* calendar days the clock runs through
MaxDay == 2
\* characters a submitted MRN or NPI may have beyond the required length
MaxExtra == 1
\* leading characters of a submitted diagnosis code that are drawn freely
MaxHead == 3
\* comma-separated segments of a submitted list field
MaxSegments == 3

(***************************************************************************)
(* Input values.  "Zoë" / "ZOË" differ by case in a non-ASCII letter.      *)
(***************************************************************************)
John == <<74, 111, 104, 110>>
JOHN == <<74, 79, 72, 78>>
Doe == <<68, 111, 101>>
DOE == <<68, 79, 69>>
Zoe == <<90, 111, 235>>
ZOE == <<90, 79, 203>>
DrSmith == <<68, 114, 46, 32, 83, 109, 105, 116, 104>>
DRSMITH == <<68, 82, 46, 32, 83, 77, 73, 84, 72>>
DrZoe == <<68, 114, 46, 32, 90, 111, 235>>
DRZOE == <<68, 82, 46, 32, 90, 79, 203>>

ProviderNames == {DrSmith, DRSMITH, DrZoe, DRZOE}
NPIs == {"1234567890", "9999999999"}
MRNs == {"123456", "999888"}
Medications == {"Humira", "Ozempic"}

Request(fn, ln, prov, npi, mrn, dx, med) ==
    [patient_first_name |-> fn, patient_last_name |-> ln,
     referring_provider |-> prov, referring_provider_npi |-> npi,
     patient_mrn |-> mrn, primary_diagnosis |-> dx, medication_name |-> med]

\* validated requests that vary the patient, one provider: one patient
\* under both MRNs and medications, the same name in another case, a second
\* patient, and that name with its non-ASCII letter in the other case
PatientRequests ==
    {Request(John, Doe, DrSmith, "1234567890", m, "E11.9", med) :
        m \in MRNs, med \in Medications}
    \cup
    {Request(JOHN, DOE, DrSmith, "1234567890", "123456", "J45.20", "Humira"),
     Request(Zoe, Doe, DrSmith, "1234567890", "123456", "E11.9", "Humira"),
     Request(ZOE, Doe, DrSmith, "1234567890", "123456", "E11.9", "Humira"),
     Request(ZOE, Doe, DrSmith, "1234567890", "999888", "J45.20", "Humira")}

\* validated requests that vary the provider, one patient
ProviderRequests ==
    {Request(John, Doe, n, i, "123456", "E11.9", "Humira") :
        n \in ProviderNames, i \in NPIs}

Requests == PatientRequests \cup ProviderRequests

NoRequest == [patient_first_name |-> <<>>]

(***************************************************************************)
(* Case conversions.                                                       *)
(***************************************************************************)
\* SQLite's built-in LOWER(): converts the ASCII letters A-Z only
SqlLower(s) ==
    [i \in 1..Len(s) |-> IF s[i] >= 65 /\ s[i] <= 90 THEN s[i] + 32 ELSE s[i]]

\* a letter that has an upper- and a lower-case form (ASCII and Latin-1)
IsUpper(c) == (c >= 65 /\ c <= 90) \/ (c >= 192 /\ c <= 222 /\ c # 215)

\* Python's str.lower(): also converts the Latin-1 capitals (U+00C0..U+00DE
\* without the multiplication sign U+00D7)
PyLower(s) ==
    [i \in 1..Len(s) |->
        IF IsUpper(s[i])
        THEN s[i] + 32 ELSE s[i]]

\* two names are the same up to the case of their letters
EqualIgnoringCase(a, b) ==
    /\ Len(a) = Len(b)
    /\ \A i \in 1..Len(a) :
          \/ a[i] = b[i]
          \/ IsUpper(a[i]) /\ b[i] = a[i] + 32
          \/ IsUpper(b[i]) /\ a[i] = b[i] + 32

(***************************************************************************)
(* database.py: queries over the tables.  A table is the sequence of its   *)
(* rows in rowid order; fetchone() yields the first matching row.          *)
(***************************************************************************)
NoRow == [id |-> 0]

\* hits: the indices of the rows the WHERE clause selects
FirstRow(table, hits) ==
    IF hits = {} THEN NoRow
    ELSE table[CHOOSE i \in hits : \A j \in hits : i <= j]

find_care_plan_by_mrn(care_plans, mrn) ==
    FirstRow(care_plans,
             {i \in 1..Len(care_plans) : care_plans[i].patient_mrn = mrn})

find_care_plan_by_patient_name(care_plans, first_name, last_name) ==
    FirstRow(care_plans,
             {i \in 1..Len(care_plans) :
                 /\ SqlLower(care_plans[i].patient_first_name) = SqlLower(first_name)
                 /\ SqlLower(care_plans[i].patient_last_name) = SqlLower(last_name)})

find_provider_by_npi(providers, npi) ==
    FirstRow(providers, {i \in 1..Len(providers) : providers[i].npi = npi})

find_provider_by_name(providers, name) ==
    FirstRow(providers,
             {i \in 1..Len(providers) :
                 SqlLower(providers[i].name) = SqlLower(name)})

\* not defined in database.py; the store contract: (first, last) up to
\* case, MRN, medication name, created on the current calendar day
find_duplicate_submission(care_plans, day, first_name, last_name, mrn, medication_name) ==
    FirstRow(care_plans,
             {i \in 1..Len(care_plans) :
                 /\ EqualIgnoringCase(care_plans[i].patient_first_name, first_name)
                 /\ EqualIgnoringCase(care_plans[i].patient_last_name, last_name)
                 /\ care_plans[i].patient_mrn = mrn
                 /\ care_plans[i].medication_name = medication_name
                 /\ care_plans[i].created_at = day})

\* not defined in database.py; the store contract: MRN and medication
\* name, created on an earlier calendar day
find_previous_submission(care_plans, day, mrn, medication_name) ==
    FirstRow(care_plans,
             {i \in 1..Len(care_plans) :
                 /\ care_plans[i].patient_mrn = mrn
                 /\ care_plans[i].medication_name = medication_name
                 /\ care_plans[i].created_at < day})

\* INSERT OR IGNORE rewriting the row of an NPI that is present
insert_provider_Replaces(providers, day, name, npi) ==
    IF \E i \in 1..Len(providers) : providers[i].npi = npi
    THEN [i \in 1..Len(providers) |->
             IF providers[i].npi = npi
             THEN [providers[i] EXCEPT !.name = name, !.created_at = day]
             ELSE providers[i]]
    ELSE Append(providers, [id |-> Len(providers) + 1, name |-> name,
                            npi |-> npi, created_at |-> day])

\* INSERT OR IGNORE under UNIQUE(npi); created_at is the current day
insert_provider(providers, day, name, npi) ==
    IF \E i \in 1..Len(providers) : providers[i].npi = npi
    THEN providers
    ELSE Append(providers, [id |-> Len(providers) + 1, name |-> name,
                            npi |-> npi, created_at |-> day])

\* dict.get(key, "")
Get(data, key) == IF key \in DOMAIN data THEN data[key] ELSE ""

\* INSERT OR IGNORE under a UNIQUE(patient_mrn, medication_name, day) that
\* the table does not have
insert_care_plan_UniquePerDay(care_plans, day, data, generated_plan) ==
    IF \E i \in 1..Len(care_plans) :
          /\ care_plans[i].patient_mrn = data.patient_mrn
          /\ care_plans[i].medication_name = data.medication_name
          /\ care_plans[i].created_at = day
    THEN care_plans
    ELSE Append(care_plans,
                [id |-> Len(care_plans) + 1,
                 patient_first_name |-> data.patient_first_name,
                 patient_last_name |-> data.patient_last_name,
                 referring_provider |-> data.referring_provider,
                 referring_provider_npi |-> data.referring_provider_npi,
                 patient_mrn |-> data.patient_mrn,
                 primary_diagnosis |-> data.primary_diagnosis,
                 medication_name |-> data.medication_name,
                 additional_diagnoses |-> Get(data, "additional_diagnoses"),
                 medication_history |-> Get(data, "medication_history"),
                 patient_records |-> Get(data, "patient_records"),
                 generated_plan |-> generated_plan,
                 created_at |-> day])

\* INSERT; id is the AUTOINCREMENT rowid, created_at the current day.  The
\* two list-valued fields are kept as the request holds them.
insert_care_plan(care_plans, day, data, generated_plan) ==
    Append(care_plans,
           [id |-> Len(care_plans) + 1,
            patient_first_name |-> data.patient_first_name,
            patient_last_name |-> data.patient_last_name,
            referring_provider |-> data.referring_provider,
            referring_provider_npi |-> data.referring_provider_npi,
            patient_mrn |-> data.patient_mrn,
            primary_diagnosis |-> data.primary_diagnosis,
            medication_name |-> data.medication_name,
            additional_diagnoses |-> Get(data, "additional_diagnoses"),
            medication_history |-> Get(data, "medication_history"),
            patient_records |-> Get(data, "patient_records"),
            generated_plan |-> generated_plan,
            created_at |-> day])

\* SELECT * ... ORDER BY created_at without DESC
get_all_care_plans_Ascending(care_plans) ==
    {order \in [1..Len(care_plans) -> 1..Len(care_plans)] :
        /\ \A i, j \in 1..Len(care_plans) : i # j => order[i] # order[j]
        /\ \A i, j \in 1..Len(care_plans) :
              i < j => care_plans[order[i]].created_at
                           <= care_plans[order[j]].created_at}

\* SELECT * ... ORDER BY created_at DESC: the orders in which the rows may
\* come, as row numbers; rows created at the same time come in any order
get_all_care_plans(care_plans) ==
    {order \in [1..Len(care_plans) -> 1..Len(care_plans)] :
        /\ \A i, j \in 1..Len(care_plans) : i # j => order[i] # order[j]
        /\ \A i, j \in 1..Len(care_plans) :
              i < j => care_plans[order[i]].created_at
                           >= care_plans[order[j]].created_at}

(***************************************************************************)
(* models.py: validation of the submitted form.  A string is the sequence  *)
(* of its code points.  The two list-valued fields take a str (the form    *)
(* value) or a list (a validated request given back to the constructor).   *)
(***************************************************************************)
\* Field(min_length=10, max_length=10) of referring_provider_npi
NpiLength == 10
\* Field(min_length=6, max_length=6) of patient_mrn
MrnLength == 6

Str(s) == [str |-> s]
List(l) == [list |-> l]

\* str.isspace(), for the characters up to U+00FF
IsSpace(c) == (c >= 9 /\ c <= 13) \/ (c >= 28 /\ c <= 32) \/ c = 133 \/ c = 160

\* \d of a str pattern: a decimal digit; 0-9 and the Arabic-Indic digits
IsDecimal(c) == (c >= 48 /\ c <= 57) \/ (c >= 1632 /\ c <= 1641)

\* the characters str.isdigit() accepts: decimal and superscript digits
IsDigit(c) == IsDecimal(c) \/ c = 178 \/ c = 179 \/ c = 185

\* str.isdigit(): not empty and every character a digit
isdigit(v) == v # <<>> /\ \A i \in 1..Len(v) : IsDigit(v[i])

\* str.strip()
strip(v) ==
    LET keep == {i \in 1..Len(v) : ~IsSpace(v[i])}
    IN  IF keep = {} THEN <<>>
        ELSE SubSeq(v, CHOOSE i \in keep : \A j \in keep : i <= j,
                       CHOOSE i \in keep : \A j \in keep : i >= j)

\* str.split(sep)
RECURSIVE split(_, _)
split(v, sep) ==
    LET hits == {i \in 1..Len(v) : v[i] = sep}
    IN  IF hits = {} THEN <<v>>
        ELSE LET first == CHOOSE i \in hits : \A j \in hits : i <= j
             IN  <<SubSeq(v, 1, first - 1)>>
                 \o split(SubSeq(v, first + 1, Len(v)), sep)

\* the upper-case form of one character: a-z and the Latin-1 small
\* letters, sharp s (two letters), y with diaeresis, micro sign, dotless i
\* and long s; every other character is its own upper-case form
UpperChar(c) ==
    IF (c >= 97 /\ c <= 122) \/ (c >= 224 /\ c <= 254 /\ c # 247)
    THEN <<c - 32>>
    ELSE IF c = 223 THEN <<83, 83>>
    ELSE IF c = 255 THEN <<376>>
    ELSE IF c = 181 THEN <<924>>
    ELSE IF c = 305 THEN <<73>>
    ELSE IF c = 383 THEN <<83>>
    ELSE <<c>>

\* str.upper()
RECURSIVE upper(_)
upper(v) == IF v = <<>> THEN <<>> ELSE UpperChar(Head(v)) \o upper(Tail(v))

\* [A-Z]\d{2}(\.\d{1,4})? matches exactly the first n characters of v
MatchesCode(v, n) ==
    /\ n >= 3
    /\ n <= Len(v)
    /\ v[1] >= 65 /\ v[1] <= 90
    /\ IsDecimal(v[2]) /\ IsDecimal(v[3])
    /\ \/ n = 3
       \/ /\ n >= 5 /\ n <= 8
          /\ v[4] = 46
          /\ \A i \in 5..n : IsDecimal(v[i])

\* re.match(ICD10_PATTERN, v): ^ is the start; $ is the end of the string
\* or the position before a newline that ends it
ICD10_PATTERN(v) ==
    \/ MatchesCode(v, Len(v))
    \/ Len(v) >= 1 /\ v[Len(v)] = 10 /\ MatchesCode(v, Len(v) - 1)

is_valid_icd10(code) == ICD10_PATTERN(upper(code))

\* the message of pydantic's own length errors
TooShort(min_length) ==
    IF min_length = 1 THEN "String should have at least 1 character"
    ELSE IF min_length = MrnLength
    THEN "String should have at least 6 characters"
    ELSE "String should have at least 10 characters"

TooLong(max_length) ==
    IF max_length = MrnLength THEN "String should have at most 6 characters"
    ELSE "String should have at most 10 characters"

\* the outcome of validating one field
Valid(value) == [msg |-> "", value |-> value]
Invalid(msg) == [msg |-> msg, codes |-> <<>>, value |-> <<>>]

\* Field(..., min_length=, max_length=) of a str field; max_length 0: none
Field(v, min_length, max_length) ==
    IF Len(v) < min_length THEN Invalid(TooShort(min_length))
    ELSE IF max_length > 0 /\ Len(v) > max_length
    THEN Invalid(TooLong(max_length))
    ELSE Valid(v)

\* validate_mrn asking for some digit instead of only digits
validate_mrn_AnyDigit(v) ==
    IF \A i \in 1..Len(v) : ~IsDigit(v[i])
    THEN Invalid("Value error, MRN must contain only digits")
    ELSE IF Len(v) # MrnLength
    THEN Invalid("Value error, MRN must be exactly 6 digits")
    ELSE Valid(v)

\* the validators run on a value that passed its Field constraints
validate_npi(v) ==
    IF ~isdigit(v) THEN Invalid("Value error, NPI must contain only digits")
    ELSE IF Len(v) # NpiLength
    THEN Invalid("Value error, NPI must be exactly 10 digits")
    ELSE Valid(v)

validate_mrn(v) ==
    IF ~isdigit(v) THEN Invalid("Value error, MRN must contain only digits")
    ELSE IF Len(v) # MrnLength
    THEN Invalid("Value error, MRN must be exactly 6 digits")
    ELSE Valid(v)

validate_primary_diagnosis(v) ==
    IF ~is_valid_icd10(v)
    THEN Invalid("Value error, Primary diagnosis must be a valid ICD-10 code (e.g., E11.9)")
    ELSE Valid(upper(v))

\* the elements of a list that are not empty after strip(), stripped
Stripped(l) ==
    LET s == [i \in 1..Len(l) |-> strip(l[i])]
    IN  SelectSeq(s, LAMBDA c : c # <<>>)

InvalidCodes(codes) ==
    [msg |-> "Value error, Invalid ICD-10 code(s): ", codes |-> codes,
     value |-> <<>>]

\* parse_additional_diagnoses taking a str only: a list gives the empty list
parse_additional_diagnoses_StrOnly(v) ==
    IF "str" \in DOMAIN v
    THEN LET codes == Stripped(split(v.str, 44))
             invalid == SelectSeq(codes, LAMBDA c : ~is_valid_icd10(c))
         IN  IF invalid # <<>> THEN InvalidCodes(invalid)
             ELSE Valid([i \in 1..Len(codes) |-> upper(codes[i])])
    ELSE Valid(<<>>)

\* parse_additional_diagnoses reporting the first invalid code only
parse_additional_diagnoses_FirstInvalid(v) ==
    LET codes == IF "list" \in DOMAIN v THEN Stripped(v.list)
                 ELSE IF strip(v.str) = <<>> THEN <<>>
                 ELSE Stripped(split(v.str, 44))
        invalid == SelectSeq(codes, LAMBDA c : ~is_valid_icd10(c))
    IN  IF invalid # <<>> THEN InvalidCodes(<<Head(invalid)>>)
        ELSE Valid([i \in 1..Len(codes) |-> upper(codes[i])])

\* mode="before": v is the raw value, a list or a str
parse_additional_diagnoses(v) ==
    LET codes == IF "list" \in DOMAIN v THEN Stripped(v.list)
                 ELSE IF strip(v.str) = <<>> THEN <<>>
                 ELSE Stripped(split(v.str, 44))
        invalid == SelectSeq(codes, LAMBDA c : ~is_valid_icd10(c))
    IN  IF invalid # <<>> THEN InvalidCodes(invalid)
        ELSE Valid([i \in 1..Len(codes) |-> upper(codes[i])])

parse_medication_history(v) ==
    IF "list" \in DOMAIN v THEN Valid(Stripped(v.list))
    ELSE IF strip(v.str) = <<>> THEN Valid(<<>>)
    ELSE Valid(Stripped(split(v.str, 44)))

\* a field's validator runs only when its Field constraints are met
Then(field, validated) == IF field.msg # "" THEN field ELSE validated

\* CarePlanRequest(**form): the errors in field order, and the validated
\* request when there is none
CarePlanRequest(form) ==
    LET npi == Field(form.referring_provider_npi, NpiLength, NpiLength)
        mrn == Field(form.patient_mrn, MrnLength, MrnLength)
        dx == Field(form.primary_diagnosis, 1, 0)
        out == [patient_first_name |-> Field(form.patient_first_name, 1, 0),
                patient_last_name |-> Field(form.patient_last_name, 1, 0),
                referring_provider |-> Field(form.referring_provider, 1, 0),
                referring_provider_npi |-> Then(npi, validate_npi(npi.value)),
                patient_mrn |-> Then(mrn, validate_mrn(mrn.value)),
                primary_diagnosis |->
                    Then(dx, validate_primary_diagnosis(dx.value)),
                medication_name |-> Field(form.medication_name, 1, 0),
                additional_diagnoses |->
                    parse_additional_diagnoses(form.additional_diagnoses),
                medication_history |->
                    parse_medication_history(form.medication_history),
                patient_records |-> Valid(form.patient_records)]
        order == <<"patient_first_name", "patient_last_name",
                   "referring_provider", "referring_provider_npi",
                   "patient_mrn", "primary_diagnosis", "medication_name",
                   "additional_diagnoses", "medication_history",
                   "patient_records">>
        failed == SelectSeq(order, LAMBDA loc : out[loc].msg # "")
        errors == [i \in 1..Len(failed) |->
                      [loc |-> failed[i], msg |-> out[failed[i]].msg,
                       codes |-> out[failed[i]].codes]]
    IN  [errors |-> errors,
         data |-> IF errors # <<>> THEN NoRequest
                  ELSE [loc \in DOMAIN out |-> out[loc].value]]

\* CarePlanRequest.model_dump(), as keyword arguments of the constructor
model_dump(data) ==
    [data EXCEPT !.additional_diagnoses = List(@),
                 !.medication_history = List(@)]

(***************************************************************************)
(* services.py                                                             *)
(***************************************************************************)
MrnWarning(data) == [kind |-> "mrn_exists", mrn |-> data.patient_mrn]
NameWarning(data) ==
    [kind |-> "name_may_exist", first |-> data.patient_first_name,
     last |-> data.patient_last_name]
PreviousWarning(data) ==
    [kind |-> "previous_date", mrn |-> data.patient_mrn,
     medication |-> data.medication_name]

\* check_duplicate_warnings giving the MRN warning only when the name
\* matches as well
check_duplicate_warnings_MrnNeedsName(care_plans, day, data) ==
    LET existing_by_mrn == find_care_plan_by_mrn(care_plans, data.patient_mrn)
        existing_by_name ==
            find_care_plan_by_patient_name(care_plans, data.patient_first_name,
                                           data.patient_last_name)
        previous_submission ==
            find_previous_submission(care_plans, day, data.patient_mrn,
                                     data.medication_name)
        patient == IF existing_by_mrn # NoRow /\ existing_by_name # NoRow
                   THEN <<MrnWarning(data)>>
                   ELSE IF existing_by_name # NoRow THEN <<NameWarning(data)>>
                   ELSE <<>>
    IN  IF previous_submission # NoRow
        THEN Append(patient, PreviousWarning(data))
        ELSE patient

\* check_duplicate_warnings without the name lookup
check_duplicate_warnings_SkipsNameLookup(care_plans, day, data) ==
    LET existing_by_mrn == find_care_plan_by_mrn(care_plans, data.patient_mrn)
        previous_submission ==
            find_previous_submission(care_plans, day, data.patient_mrn,
                                     data.medication_name)
        patient == IF existing_by_mrn # NoRow THEN <<MrnWarning(data)>> ELSE <<>>
    IN  IF previous_submission # NoRow
        THEN Append(patient, PreviousWarning(data))
        ELSE patient

\* check_duplicate_warnings with the previous-date check as one more branch
\* of the patient check
check_duplicate_warnings_PreviousAsElse(care_plans, day, data) ==
    LET existing_by_mrn == find_care_plan_by_mrn(care_plans, data.patient_mrn)
        existing_by_name ==
            find_care_plan_by_patient_name(care_plans, data.patient_first_name,
                                           data.patient_last_name)
        previous_submission ==
            find_previous_submission(care_plans, day, data.patient_mrn,
                                     data.medication_name)
    IN  IF existing_by_mrn # NoRow THEN <<MrnWarning(data)>>
        ELSE IF existing_by_name # NoRow THEN <<NameWarning(data)>>
        ELSE IF previous_submission # NoRow THEN <<PreviousWarning(data)>>
        ELSE <<>>

\* check_duplicate_warnings running the previous-date check first
check_duplicate_warnings_PreviousFirst(care_plans, day, data) ==
    LET existing_by_mrn == find_care_plan_by_mrn(care_plans, data.patient_mrn)
        existing_by_name ==
            find_care_plan_by_patient_name(care_plans, data.patient_first_name,
                                           data.patient_last_name)
        previous_submission ==
            find_previous_submission(care_plans, day, data.patient_mrn,
                                     data.medication_name)
        previous == IF previous_submission # NoRow
                    THEN <<PreviousWarning(data)>> ELSE <<>>
    IN  IF existing_by_mrn # NoRow THEN Append(previous, MrnWarning(data))
        ELSE IF existing_by_name # NoRow THEN Append(previous, NameWarning(data))
        ELSE previous

check_duplicate_warnings(care_plans, day, data) ==
    LET existing_by_mrn == find_care_plan_by_mrn(care_plans, data.patient_mrn)
        existing_by_name ==
            find_care_plan_by_patient_name(care_plans, data.patient_first_name,
                                           data.patient_last_name)
        previous_submission ==
            find_previous_submission(care_plans, day, data.patient_mrn,
                                     data.medication_name)
        patient == IF existing_by_mrn # NoRow THEN <<MrnWarning(data)>>
                   ELSE IF existing_by_name # NoRow THEN <<NameWarning(data)>>
                   ELSE <<>>
    IN  IF previous_submission # NoRow
        THEN Append(patient, PreviousWarning(data))
        ELSE patient

\* check_blocking_provider_conflict looking the NPI up before the name
check_blocking_provider_conflict_NpiFirst(providers, name, npi) ==
    LET existing_by_name == find_provider_by_name(providers, name)
        existing_by_npi == find_provider_by_npi(providers, npi)
    IN  IF existing_by_npi # NoRow
           /\ PyLower(existing_by_npi.name) # PyLower(name)
        THEN "npi_registered_to_other_name"
        ELSE IF existing_by_name # NoRow /\ existing_by_name.npi # npi
        THEN "name_registered_with_other_npi"
        ELSE "none"

\* the error raised, or "none"
check_blocking_provider_conflict(providers, name, npi) ==
    LET existing_by_name == find_provider_by_name(providers, name)
        existing_by_npi == find_provider_by_npi(providers, npi)
    IN  IF existing_by_name # NoRow /\ existing_by_name.npi # npi
        THEN "name_registered_with_other_npi"
        ELSE IF existing_by_npi # NoRow
                /\ PyLower(existing_by_npi.name) # PyLower(name)
        THEN "npi_registered_to_other_name"
        ELSE "none"

\* check_blocking_duplicate passing first and last name in the wrong order
check_blocking_duplicate_SwappedNames(care_plans, day, data) ==
    IF find_duplicate_submission(care_plans, day, data.patient_last_name,
                                 data.patient_first_name, data.patient_mrn,
                                 data.medication_name) # NoRow
    THEN "already_submitted_today"
    ELSE "none"

\* the error raised, or "none"
check_blocking_duplicate(care_plans, day, data) ==
    IF find_duplicate_submission(care_plans, day, data.patient_first_name,
                                 data.patient_last_name, data.patient_mrn,
                                 data.medication_name) # NoRow
    THEN "already_submitted_today"
    ELSE "none"

GeneratedText == "generated care plan"

\* llm.py: the backend answers (llm_ok) or the call raises
generate_care_plan(data, llm_ok) ==
    IF llm_ok THEN [raised |-> FALSE, text |-> GeneratedText]
    ELSE [raised |-> TRUE, text |-> ""]

\* create_care_plan registering the provider before the blocking checks
create_care_plan_RegistersFirst(care_plans, providers, day, data, llm_ok) ==
    LET dup == check_blocking_duplicate(care_plans, day, data)
        conflict == check_blocking_provider_conflict(
                        providers, data.referring_provider,
                        data.referring_provider_npi)
        warns == check_duplicate_warnings(care_plans, day, data)
        gen == generate_care_plan(data, llm_ok)
        registered == insert_provider(providers, day, data.referring_provider,
                                      data.referring_provider_npi)
        stopped(exc, reason, called) ==
            [raised |-> exc, reason |-> reason, id |-> 0, warnings |-> <<>>,
             generated_plan |-> "", called_llm |-> called,
             care_plans |-> care_plans, providers |-> registered]
    IN  IF dup # "none" THEN stopped("DuplicateSubmissionError", dup, FALSE)
        ELSE IF conflict # "none"
        THEN stopped("ProviderConflictError", conflict, FALSE)
        ELSE IF gen.raised
        THEN [stopped("CarePlanGenerationError", "generation_failed", TRUE)
                EXCEPT !.providers = providers]
        ELSE [raised |-> "none", reason |-> "none",
              id |-> Len(care_plans) + 1, warnings |-> warns,
              generated_plan |-> gen.text, called_llm |-> TRUE,
              care_plans |-> insert_care_plan(care_plans, day, data, gen.text),
              providers |-> registered]

\* create_care_plan registering the provider before it generates the plan
create_care_plan_PersistsBeforeGenerate(care_plans, providers, day, data, llm_ok) ==
    LET dup == check_blocking_duplicate(care_plans, day, data)
        conflict == check_blocking_provider_conflict(
                        providers, data.referring_provider,
                        data.referring_provider_npi)
        warns == check_duplicate_warnings(care_plans, day, data)
        gen == generate_care_plan(data, llm_ok)
        registered == insert_provider(providers, day, data.referring_provider,
                                      data.referring_provider_npi)
        stopped(exc, reason, called, provs) ==
            [raised |-> exc, reason |-> reason, id |-> 0, warnings |-> <<>>,
             generated_plan |-> "", called_llm |-> called,
             care_plans |-> care_plans, providers |-> provs]
    IN  IF dup # "none"
        THEN stopped("DuplicateSubmissionError", dup, FALSE, providers)
        ELSE IF conflict # "none"
        THEN stopped("ProviderConflictError", conflict, FALSE, providers)
        ELSE IF gen.raised
        THEN stopped("CarePlanGenerationError", "generation_failed", TRUE,
                     registered)
        ELSE [raised |-> "none", reason |-> "none",
              id |-> Len(care_plans) + 1, warnings |-> warns,
              generated_plan |-> gen.text, called_llm |-> TRUE,
              care_plans |-> insert_care_plan(care_plans, day, data, gen.text),
              providers |-> registered]

\* the whole of create_care_plan: what it raises or returns, the tables it
\* leaves, and whether it called the generator
create_care_plan(care_plans, providers, day, data, llm_ok) ==
    LET dup == check_blocking_duplicate(care_plans, day, data)
        conflict == check_blocking_provider_conflict(
                        providers, data.referring_provider,
                        data.referring_provider_npi)
        warns == check_duplicate_warnings(care_plans, day, data)
        gen == generate_care_plan(data, llm_ok)
        unchanged(exc, reason, called) ==
            [raised |-> exc, reason |-> reason, id |-> 0, warnings |-> <<>>,
             generated_plan |-> "", called_llm |-> called,
             care_plans |-> care_plans, providers |-> providers]
    IN  IF dup # "none" THEN unchanged("DuplicateSubmissionError", dup, FALSE)
        ELSE IF conflict # "none"
        THEN unchanged("ProviderConflictError", conflict, FALSE)
        ELSE IF gen.raised
        THEN unchanged("CarePlanGenerationError", "generation_failed", TRUE)
        ELSE LET saved == insert_care_plan(care_plans, day, data, gen.text)
             IN  [raised |-> "none", reason |-> "none",
                  id |-> saved[Len(saved)].id, warnings |-> warns,
                  generated_plan |-> gen.text, called_llm |-> TRUE,
                  care_plans |-> saved,
                  providers |-> insert_provider(providers, day,
                                                data.referring_provider,
                                                data.referring_provider_npi)]

(***************************************************************************)
(* main.py: POST /submit, for a request that passed validation.            *)
(***************************************************************************)
\* submit_care_plan answering a failed generation with an empty plan
submit_care_plan_SwallowsGenerationError(result) ==
    IF result.raised \in {"DuplicateSubmissionError", "ProviderConflictError"}
    THEN [status |-> 409, success |-> FALSE, errors |-> <<result.reason>>,
          id |-> 0, warnings |-> <<>>, generated_plan |-> ""]
    ELSE [status |-> 200, success |-> TRUE, errors |-> <<>>,
          id |-> result.id, warnings |-> result.warnings,
          generated_plan |-> result.generated_plan]

submit_care_plan(result) ==
    IF result.raised \in {"DuplicateSubmissionError", "ProviderConflictError"}
    THEN [status |-> 409, success |-> FALSE, errors |-> <<result.reason>>,
          id |-> 0, warnings |-> <<>>, generated_plan |-> ""]
    ELSE IF result.raised # "none"
    THEN [status |-> 500, success |-> FALSE, errors |-> <<>>,
          id |-> 0, warnings |-> <<>>, generated_plan |-> ""]
    ELSE [status |-> 200, success |-> TRUE, errors |-> <<>>,
          id |-> result.id, warnings |-> result.warnings,
          generated_plan |-> result.generated_plan]

NoResponse == [status |-> 0]

\* create_care_plan when the store may fail: failing names the insert that
\* raises, or is "none".  Each insert runs and commits on a connection of
\* its own (get_db), so when insert_care_plan raises, the row that
\* insert_provider wrote stays.
create_care_plan_storage(care_plans, providers, day, data, llm_ok, failing) ==
    LET res == create_care_plan(care_plans, providers, day, data, llm_ok)
    IN  IF res.raised # "none" \/ failing = "none" THEN res
        ELSE [res EXCEPT
                 !.raised = "StorageError", !.reason = failing, !.id = 0,
                 !.warnings = <<>>, !.generated_plan = "",
                 !.care_plans = care_plans,
                 !.providers = IF failing = "insert_provider" THEN providers
                               ELSE res.providers]

\* no file was uploaded
NoFile == [filename |-> <<>>]

EndsWith(v, suffix) ==
    /\ Len(v) >= Len(suffix)
    /\ SubSeq(v, Len(v) - Len(suffix) + 1, Len(v)) = suffix

\* "\n\n--- Extracted from PDF ---\n\n"
PdfSeparator ==
    <<10, 10, 45, 45, 45, 32, 69, 120, 116, 114, 97, 99, 116, 101, 100, 32,
      102, 114, 111, 109, 32, 80, 68, 70, 32, 45, 45, 45, 10, 10>>

\* the records text with the text of the uploaded PDF, or the error of
\* the upload; file.text is what extract_text_from_pdf returns and
\* file.parses whether it returns at all
combined_records(patient_records, file) ==
    IF file.filename = <<>> THEN Valid(patient_records)
    ELSE IF ~EndsWith(PyLower(file.filename), <<46, 112, 100, 102>>)
    THEN Invalid("Only PDF files are supported for patient records upload")
    ELSE IF ~file.parses THEN Invalid("Failed to parse PDF")
    ELSE IF patient_records # <<>>
    THEN Valid(patient_records \o PdfSeparator \o file.text)
    ELSE Valid(file.text)

\* the whole of POST /submit: the response, the tables it leaves, what was
\* raised, and whether the store was reached
post_submit(care_plans, providers, day, form, llm_ok, failing) ==
    LET records == combined_records(form.patient_records,
                                    form.patient_records_file)
        validated ==
            CarePlanRequest([form EXCEPT !.patient_records = records.value])
        rejected(errors) ==
            [raised |-> "ValidationError", reason |-> "none", id |-> 0,
             warnings |-> <<>>, called_llm |-> FALSE, reached_store |-> FALSE,
             data |-> NoRequest, care_plans |-> care_plans,
             providers |-> providers,
             response |-> [status |-> 400, success |-> FALSE,
                           errors |-> errors, id |-> 0, warnings |-> <<>>,
                           generated_plan |-> ""]]
    IN  IF records.msg # "" THEN rejected(<<[msg |-> records.msg, codes |-> <<>>]>>)
        ELSE IF validated.errors # <<>>
        THEN rejected([i \in 1..Len(validated.errors) |->
                          [msg |-> validated.errors[i].msg,
                           codes |-> validated.errors[i].codes]])
        ELSE LET res == create_care_plan_storage(care_plans, providers, day,
                                                 validated.data, llm_ok, failing)
             IN  [raised |-> res.raised, reason |-> res.reason, id |-> res.id,
                  warnings |-> res.warnings, called_llm |-> res.called_llm,
                  reached_store |-> TRUE, data |-> validated.data,
                  care_plans |-> res.care_plans, providers |-> res.providers,
                  response |-> submit_care_plan(res)]

\* the columns of the CSV, in order
fieldnames ==
    <<"id", "patient_first_name", "patient_last_name", "patient_mrn",
      "referring_provider", "referring_provider_npi", "primary_diagnosis",
      "medication_name", "additional_diagnoses", "medication_history",
      "patient_records", "generated_plan", "created_at">>

\* csv.DictWriter(fieldnames, extrasaction="ignore").writerow(row): the
\* row's values of the columns, "" for a column the row lacks
writerow(row) ==
    [i \in 1..Len(fieldnames) |->
        IF fieldnames[i] \in DOMAIN row THEN row[fieldnames[i]] ELSE ""]

\* GET /export, the rows arriving in the given order
export_care_plans(care_plans, order) ==
    IF care_plans = <<>>
    THEN [status |-> 404, error |-> "No care plans to export"]
    ELSE [status |-> 200, media_type |-> "text/csv", header |-> fieldnames,
          rows |-> [i \in 1..Len(care_plans) |-> writerow(care_plans[order[i]])]]

(***************************************************************************)
(* State: the two tables, the clock, and the last request with what it     *)
(* found (the tables before it), what it raised and what was answered.     *)
(***************************************************************************)
VARIABLES care_plans, providers, today, req, before, result, response

vars == <<care_plans, providers, today, req, before, result, response>>

NoResult == [raised |-> "idle"]

Init ==
    /\ care_plans = <<>>
    /\ providers = <<>>
    /\ today = 1
    /\ req = NoRequest
    /\ before = [care_plans |-> <<>>, providers |-> <<>>]
    /\ result = NoResult
    /\ response = NoResponse

\* one POST /submit, run to completion
Submit(data, llm_ok) ==
    /\ req = NoRequest
    /\ \E res \in {create_care_plan(care_plans, providers, today, data, llm_ok)} :
          /\ Len(res.care_plans) <= MaxPlans
          /\ req' = data
          /\ before' = [care_plans |-> care_plans, providers |-> providers]
          /\ result' = [raised |-> res.raised, reason |-> res.reason,
                        warnings |-> res.warnings, id |-> res.id,
                        called_llm |-> res.called_llm]
          /\ care_plans' = res.care_plans
          /\ providers' = res.providers
          /\ response' = submit_care_plan(res)
          /\ UNCHANGED today

\* midnight passes; no request is in progress
Done ==
    /\ req # NoRequest
    /\ req' = NoRequest
    /\ before' = [care_plans |-> care_plans, providers |-> providers]
    /\ result' = NoResult
    /\ response' = NoResponse
    /\ UNCHANGED <<care_plans, providers, today>>

NextDay ==
    /\ today < MaxDay
    /\ req = NoRequest
    /\ today' = today + 1
    /\ req' = NoRequest
    /\ before' = [care_plans |-> care_plans, providers |-> providers]
    /\ result' = NoResult
    /\ response' = NoResponse
    /\ UNCHANGED <<care_plans, providers>>

Next ==
    \/ \E data \in Requests, llm_ok \in BOOLEAN : Submit(data, llm_ok)
    \/ Done
    \/ NextDay

Spec == Init /\ [][Next]_vars

(***************************************************************************)
(* Validation alone: the constructor of CarePlanRequest applied to a       *)
(* submitted form, and applied again to the validated request.  req is     *)
(* the form; result holds what the constructor gave.                       *)
(***************************************************************************)
\* the strings over an alphabet of at most n characters
Strings(alphabet, n) == UNION {[1..k -> alphabet] : k \in 0..n}

\* the strings of at most n characters that are all "1" but for at most
\* one character of odd
OneOdd(n, odd) ==
    {SubSeq([i \in 1..n |-> IF i = pos THEN c ELSE 49], 1, k) :
        k \in 0..n, pos \in 0..n, c \in odd}

RECURSIVE Join(_, _)
Join(segments, sep) ==
    IF segments = <<>> THEN <<>>
    ELSE IF Len(segments) = 1 THEN segments[1]
    ELSE segments[1] \o <<sep>> \o Join(Tail(segments), sep)

\* "A", superscript two, space, newline, Arabic-Indic one, "9"
OddCharacters == {65, 178, 32, 10, 1633, 57}

MrnInputs == OneOdd(MrnLength + MaxExtra, OddCharacters)
NpiInputs == OneOdd(NpiLength + MaxExtra, OddCharacters)

\* heads over "E", "e", "1", ".", newline, followed by a tail that runs
\* through the decimal part: none, 0 to 5 digits, a final newline or space
CodeTails ==
    {<<>>, <<46>>, <<46, 49>>, <<46, 49, 49>>, <<46, 49, 49, 49>>,
     <<46, 49, 49, 49, 49>>, <<46, 49, 49, 49, 49, 49>>,
     <<10>>, <<46, 49, 10>>, <<46, 49, 49, 49, 49, 10>>, <<10, 10>>,
     <<32>>, <<46, 49, 32>>, <<49>>, <<46, 120>>}

CodeInputs ==
    {head \o tail : head \in Strings({69, 101, 49, 46, 10}, MaxHead),
                    tail \in CodeTails}

\* "", " ", "I10", " e78.5 ", "BAD", "E1"
Segments ==
    {<<>>, <<32>>, <<73, 49, 48>>, <<32, 101, 55, 56, 46, 53, 32>>,
     <<66, 65, 68>>, <<69, 49>>}

ListInputs == {Join(l, 44) : l \in Strings(Segments, MaxSegments)}

\* "1234567890", and its first n characters
Digits(n) == SubSeq(<<49, 50, 51, 52, 53, 54, 55, 56, 57, 48>>, 1, n)

BaseForm ==
    [patient_first_name |-> John, patient_last_name |-> Doe,
     referring_provider |-> DrSmith,
     referring_provider_npi |-> Digits(NpiLength),
     patient_mrn |-> Digits(MrnLength),
     primary_diagnosis |-> <<101, 49, 49, 46, 57>>,
     medication_name |-> <<72, 117, 109, 105, 114, 97>>,
     additional_diagnoses |-> Str(<<>>), medication_history |-> Str(<<>>),
     patient_records |-> <<>>]

\* the forms: the base form with one field replaced
MrnForms == {[BaseForm EXCEPT !.patient_mrn = v] : v \in MrnInputs}
NpiForms == {[BaseForm EXCEPT !.referring_provider_npi = v] : v \in NpiInputs}
PrimaryForms == {[BaseForm EXCEPT !.primary_diagnosis = v] : v \in CodeInputs}
AdditionalForms ==
    {[BaseForm EXCEPT !.additional_diagnoses = Str(v)] : v \in CodeInputs}
AdditionalListForms ==
    {[BaseForm EXCEPT !.additional_diagnoses = Str(v)] : v \in ListInputs}
HistoryForms ==
    {[BaseForm EXCEPT !.medication_history = Str(v)] : v \in ListInputs}
NameForms == {[BaseForm EXCEPT !.patient_first_name = v] : v \in {<<>>, <<32>>}}

ValidationInit ==
    /\ \/ req \in MrnForms
       \/ req \in NpiForms
       \/ req \in PrimaryForms
       \/ req \in AdditionalForms
       \/ req \in AdditionalListForms
       \/ req \in HistoryForms
       \/ req \in NameForms
    /\ result = NoResult
    /\ response = NoResponse
    /\ care_plans = <<>>
    /\ providers = <<>>
    /\ today = 1
    /\ before = [care_plans |-> <<>>, providers |-> <<>>]

\* CarePlanRequest(**form)
Validate ==
    /\ result = NoResult
    /\ \E v \in {CarePlanRequest(req)} :
          result' = [raised |-> IF v.errors = <<>> THEN "none"
                                ELSE "ValidationError",
                     errors |-> v.errors, data |-> v.data,
                     again |-> NoResult]
    /\ UNCHANGED <<care_plans, providers, today, req, before, response>>

\* CarePlanRequest(**request.model_dump())
Revalidate ==
    /\ result.raised = "none"
    /\ result.again = NoResult
    /\ result' = [result EXCEPT
                     !.again = CarePlanRequest(model_dump(result.data))]
    /\ UNCHANGED <<care_plans, providers, today, req, before, response>>

ValidationNext == Validate \/ Revalidate

ValidationSpec == ValidationInit /\ [][ValidationNext]_vars

(***************************************************************************)
(* The two routes of main.py over submitted forms: POST /submit with its   *)
(* upload, validation, plan generation and store failures, and GET         *)
(* /export.  req is the form (or the export request), result what the      *)
(* handler went through, response what it answered.                        *)
(***************************************************************************)
WithFile(form, file) ==
    [f \in DOMAIN form \cup {"patient_records_file"} |->
        IF f = "patient_records_file" THEN file ELSE form[f]]

\* "999888", "9999999999", "Ozempic", "i10, e78.5", "Enbrel", "123",
\* "INVALID", "I10, BAD", "notes.txt", "Records.PDF", "labs"
OtherMrn == <<57, 57, 57, 56, 56, 56>>
OtherNpi == <<57, 57, 57, 57, 57, 57, 57, 57, 57, 57>>
Ozempic == <<79, 122, 101, 109, 112, 105, 99>>
TwoCodes == <<105, 49, 48, 44, 32, 101, 55, 56, 46, 53>>
Enbrel == <<69, 110, 98, 114, 101, 108>>
ShortNpi == <<49, 50, 51>>
NoCode == <<73, 78, 86, 65, 76, 73, 68>>
OneBadCode == <<73, 49, 48, 44, 32, 66, 65, 68>>
TextFile == [filename |-> <<110, 111, 116, 101, 115, 46, 116, 120, 116>>]
Labs == <<108, 97, 98, 115>>
PdfFile(parses) ==
    [filename |-> <<82, 101, 99, 111, 114, 100, 115, 46, 80, 68, 70>>,
     parses |-> parses, text |-> Labs]

\* a second order of the same patient, with both lists filled
SecondOrder ==
    [BaseForm EXCEPT !.patient_mrn = OtherMrn, !.medication_name = Ozempic,
                     !.additional_diagnoses = Str(TwoCodes),
                     !.medication_history = Str(Enbrel),
                     !.patient_records = Labs]

\* the forms submitted: two orders, each under the first provider, a second
\* provider or a provider in conflict with the first; forms that fail
\* validation in one field and in two; uploads of each kind
ApiForms ==
    {WithFile(BaseForm, NoFile),
     WithFile([BaseForm EXCEPT !.referring_provider = DrZoe,
                               !.referring_provider_npi = OtherNpi], NoFile),
     WithFile(SecondOrder, NoFile),
     WithFile([SecondOrder EXCEPT !.referring_provider = DrZoe], NoFile),
     WithFile([BaseForm EXCEPT !.referring_provider_npi = ShortNpi], NoFile),
     WithFile([BaseForm EXCEPT !.primary_diagnosis = NoCode,
                               !.additional_diagnoses = Str(OneBadCode)], NoFile),
     WithFile(SecondOrder, TextFile),
     WithFile(SecondOrder, PdfFile(FALSE)),
     WithFile(SecondOrder, PdfFile(TRUE))}

\* the insert that raises a storage error, if any
Failures == {"none", "insert_provider", "insert_care_plan"}

ExportRequest == [path |-> "/export"]

\* one POST /submit, run to completion
SubmitForm(form, llm_ok, failing) ==
    /\ req = NoRequest
    /\ \E res \in {post_submit(care_plans, providers, today, form, llm_ok, failing)} :
          /\ Len(res.care_plans) <= MaxPlans
          /\ req' = form
          /\ before' = [care_plans |-> care_plans, providers |-> providers]
          /\ result' = [raised |-> res.raised, reason |-> res.reason,
                        warnings |-> res.warnings, id |-> res.id,
                        called_llm |-> res.called_llm,
                        reached_store |-> res.reached_store,
                        data |-> res.data, failing |-> failing]
          /\ care_plans' = res.care_plans
          /\ providers' = res.providers
          /\ response' = res.response
          /\ UNCHANGED today

\* one GET /export
Export ==
    /\ req = NoRequest
    /\ \E order \in get_all_care_plans(care_plans) :
          response' = export_care_plans(care_plans, order)
    /\ req' = ExportRequest
    /\ before' = [care_plans |-> care_plans, providers |-> providers]
    /\ result' = [raised |-> "export"]
    /\ UNCHANGED <<care_plans, providers, today>>

ApiNext ==
    \/ \E form \in ApiForms, llm_ok \in BOOLEAN, failing \in Failures :
          SubmitForm(form, llm_ok, failing)
    \/ Export
    \/ Done
    \/ NextDay

ApiSpec == Init /\ [][ApiNext]_vars

(***************************************************************************)
(* Concurrent requests: each worker runs create_care_plan for one          *)
(* validated request, one call of services.py at a time; every database    *)
(* call opens, uses and commits a connection of its own, so the calls of   *)
(* the workers interleave.  The workers are server processes over one      *)
(* database file: inside one event loop the handler (async def, main.py)   *)
(* runs create_care_plan without yielding, which is the interleaving where *)
(* a worker goes from Receive to its answer with no other step between.    *)
(* The lookups of one services.py function are taken in one step.  req,    *)
(* result and response hold one entry per worker; result[p].pc is the call *)
(* worker p makes next.                                                    *)
(***************************************************************************)
Procs == {1, 2}

\* one order under three pairings of provider name and NPI
ConcurrentRequests ==
    {Request(John, Doe, DrSmith, "1234567890", "123456", "E11.9", "Humira"),
     Request(John, Doe, DrZoe, "1234567890", "123456", "E11.9", "Humira"),
     Request(John, Doe, DrSmith, "9999999999", "123456", "E11.9", "Humira")}

Idle == [pc |-> "idle"]

\* worker p at a call, with what it has gathered so far
At(pc, warnings, generated_plan) ==
    [pc |-> pc, raised |-> "none", reason |-> "none", id |-> 0,
     warnings |-> warnings, generated_plan |-> generated_plan]

\* worker p finished, by an exception or by returning
Raised(exc, reason) ==
    [pc |-> "done", raised |-> exc, reason |-> reason, id |-> 0,
     warnings |-> <<>>, generated_plan |-> ""]

ConcurrentInit ==
    /\ care_plans = <<>>
    /\ providers = <<>>
    /\ today = 1
    /\ req = [p \in Procs |-> NoRequest]
    /\ result = [p \in Procs |-> Idle]
    /\ response = [p \in Procs |-> NoResponse]
    /\ before = [care_plans |-> <<>>, providers |-> <<>>]

Receive(p, data) ==
    /\ result[p].pc = "idle"
    /\ req' = [req EXCEPT ![p] = data]
    /\ result' = [result EXCEPT ![p] = At("check_blocking_duplicate", <<>>, "")]
    /\ UNCHANGED <<care_plans, providers, today, before, response>>

CheckBlockingDuplicate(p) ==
    /\ result[p].pc = "check_blocking_duplicate"
    /\ \E dup \in {check_blocking_duplicate(care_plans, today, req[p])} :
          result' = [result EXCEPT ![p] =
                        IF dup # "none"
                        THEN Raised("DuplicateSubmissionError", dup)
                        ELSE At("check_blocking_provider_conflict", <<>>, "")]
    /\ UNCHANGED <<care_plans, providers, today, req, before, response>>

CheckBlockingProviderConflict(p) ==
    /\ result[p].pc = "check_blocking_provider_conflict"
    /\ \E conflict \in {check_blocking_provider_conflict(
                            providers, req[p].referring_provider,
                            req[p].referring_provider_npi)} :
          result' = [result EXCEPT ![p] =
                        IF conflict # "none"
                        THEN Raised("ProviderConflictError", conflict)
                        ELSE At("check_duplicate_warnings", <<>>, "")]
    /\ UNCHANGED <<care_plans, providers, today, req, before, response>>

CheckDuplicateWarnings(p) ==
    /\ result[p].pc = "check_duplicate_warnings"
    /\ result' = [result EXCEPT ![p] =
                     At("generate_care_plan",
                        check_duplicate_warnings(care_plans, today, req[p]), "")]
    /\ UNCHANGED <<care_plans, providers, today, req, before, response>>

GenerateCarePlan(p, llm_ok) ==
    /\ result[p].pc = "generate_care_plan"
    /\ \E gen \in {generate_care_plan(req[p], llm_ok)} :
          result' = [result EXCEPT ![p] =
                        IF gen.raised
                        THEN Raised("CarePlanGenerationError", "generation_failed")
                        ELSE At("insert_provider", result[p].warnings, gen.text)]
    /\ UNCHANGED <<care_plans, providers, today, req, before, response>>

InsertProvider(p) ==
    /\ result[p].pc = "insert_provider"
    /\ providers' = insert_provider(providers, today, req[p].referring_provider,
                                    req[p].referring_provider_npi)
    /\ result' = [result EXCEPT ![p].pc = "insert_care_plan"]
    /\ UNCHANGED <<care_plans, today, req, before, response>>

InsertCarePlan(p) ==
    /\ result[p].pc = "insert_care_plan"
    /\ Len(care_plans) < MaxPlans
    /\ \E saved \in {insert_care_plan(care_plans, today, req[p],
                                      result[p].generated_plan)} :
          /\ care_plans' = saved
          /\ result' = [result EXCEPT ![p].pc = "done",
                                      ![p].id = saved[Len(saved)].id]
    /\ UNCHANGED <<providers, today, req, before, response>>

\* main.py answers; the answer stays until the worker takes its next request
Respond(p) ==
    /\ result[p].pc = "done"
    /\ response[p] = NoResponse
    /\ response' = [response EXCEPT ![p] = submit_care_plan(result[p])]
    /\ UNCHANGED <<care_plans, providers, today, req, before, result>>

Release(p) ==
    /\ result[p].pc = "done"
    /\ response[p] # NoResponse
    /\ req' = [req EXCEPT ![p] = NoRequest]
    /\ result' = [result EXCEPT ![p] = Idle]
    /\ response' = [response EXCEPT ![p] = NoResponse]
    /\ UNCHANGED <<care_plans, providers, today, before>>

\* midnight passes, whatever the workers are doing
Midnight ==
    /\ today < MaxDay
    /\ today' = today + 1
    /\ UNCHANGED <<care_plans, providers, req, before, result, response>>

ConcurrentNext ==
    \/ \E p \in Procs, data \in ConcurrentRequests : Receive(p, data)
    \/ \E p \in Procs : CheckBlockingDuplicate(p)
    \/ \E p \in Procs : CheckBlockingProviderConflict(p)
    \/ \E p \in Procs : CheckDuplicateWarnings(p)
    \/ \E p \in Procs, llm_ok \in BOOLEAN : GenerateCarePlan(p, llm_ok)
    \/ \E p \in Procs : InsertProvider(p)
    \/ \E p \in Procs : InsertCarePlan(p)
    \/ \E p \in Procs : Respond(p)
    \/ \E p \in Procs : Release(p)
    \/ Midnight

ConcurrentSpec == ConcurrentInit /\ [][ConcurrentNext]_vars

(***************************************************************************)
(* Vocabulary of the properties.                                           *)
(***************************************************************************)
Rows(table) == {table[i] : i \in 1..Len(table)}

\* a request has been answered and its answer is on display
Answered == req # NoRequest

Accepted == Answered /\ result.raised = "none"

Blocked ==
    Answered /\ result.raised \in {"DuplicateSubmissionError", "ProviderConflictError"}

TablesUntouched ==
    care_plans = before.care_plans /\ providers = before.providers

\* row is a Submission of data's patient and medication made on that day
SameOrderOn(row, data, day) ==
    /\ EqualIgnoringCase(row.patient_first_name, data.patient_first_name)
    /\ EqualIgnoringCase(row.patient_last_name, data.patient_last_name)
    /\ row.patient_mrn = data.patient_mrn
    /\ row.medication_name = data.medication_name
    /\ row.created_at = day

SamePatientName(row, data) ==
    /\ EqualIgnoringCase(row.patient_first_name, data.patient_first_name)
    /\ EqualIgnoringCase(row.patient_last_name, data.patient_last_name)

C2_ProviderConflictBothDirections ==
    (Answered /\ result.raised # "DuplicateSubmissionError")
    => \A row \in Rows(before.providers) :
          /\ (/\ EqualIgnoringCase(req.referring_provider, row.name)
              /\ req.referring_provider_npi # row.npi)
             => result.raised = "ProviderConflictError"
          /\ (/\ req.referring_provider_npi = row.npi
              /\ ~EqualIgnoringCase(req.referring_provider, row.name))
             => result.raised = "ProviderConflictError"
          /\ (/\ req.referring_provider_npi = row.npi
              /\ EqualIgnoringCase(req.referring_provider, row.name))
             => result.raised # "ProviderConflictError"

(***************************************************************************)
(* C3: in every state reached by requests handled one at a time from the   *)
(* empty store, no two Provider records share an NPI with different names  *)
(* and no two share a name up to case with different NPIs.                 *)
(***************************************************************************)
C3_ProvidersInjective ==
    \A p, q \in Rows(providers) :
        /\ p.npi = q.npi => p.name = q.name
        /\ EqualIgnoringCase(p.name, q.name) => p.npi = q.npi

(***************************************************************************)
(* C4: a refused request (duplicate or provider conflict) leaves both      *)
(* tables as they were and never calls the plan generator; the generator   *)
(* is called only for a request that passed both blocking checks.          *)
(***************************************************************************)
C4_BlockedHasNoSideEffects ==
    /\ Blocked => (TablesUntouched /\ ~result.called_llm)
    /\ (Answered /\ result.called_llm)
       => /\ check_blocking_duplicate(before.care_plans, today, req) = "none"
          /\ check_blocking_provider_conflict(
                 before.providers, req.referring_provider,
                 req.referring_provider_npi) = "none"

\* a duplicate of today's order that names a provider not yet registered
\* has been refused
C4_Witness ==
    /\ Blocked
    /\ result.raised = "DuplicateSubmissionError"
    /\ \A row \in Rows(before.providers) : row.npi # req.referring_provider_npi
    /\ \A row \in Rows(before.providers) :
          ~EqualIgnoringCase(row.name, req.referring_provider)

(***************************************************************************)
(* C5: when plan generation fails for a request that passed the blocking   *)
(* checks, neither a Provider nor a Submission is inserted.                *)
(***************************************************************************)
C5_GenerationFailureWritesNothing ==
    (Answered /\ result.raised = "CarePlanGenerationError")
    => /\ TablesUntouched
       /\ response.success = FALSE
       /\ check_blocking_duplicate(before.care_plans, today, req) = "none"
       /\ check_blocking_provider_conflict(
              before.providers, req.referring_provider,
              req.referring_provider_npi) = "none"

\* generation has failed for a request whose provider was not yet registered
C5_Witness ==
    /\ Answered
    /\ result.raised = "CarePlanGenerationError"
    /\ \A row \in Rows(before.providers) : row.npi # req.referring_provider_npi


\* the patient-duplicate warnings among ws, in order
PatientWarnings(ws) ==
    LET IsPatient(w) == w.kind \in {"mrn_exists", "name_may_exist"}
    IN  SelectSeq(ws, IsPatient)

Warned(w) == \E i \in 1..Len(result.warnings) : result.warnings[i] = w

\* a Submission of an earlier day with the request's MRN and medication
HasPreviousOrder ==
    \E row \in Rows(before.care_plans) :
        /\ row.patient_mrn = req.patient_mrn
        /\ row.medication_name = req.medication_name
        /\ row.created_at < today

(***************************************************************************)
(* C6: an accepted request carries at most one patient-duplicate warning:  *)
(* the MRN warning when a prior Submission has its MRN; otherwise the name *)
(* warning when a prior Submission has its (first, last) name up to case;  *)
(* otherwise none.                                                         *)
(***************************************************************************)
C6_OnePatientWarning ==
    Accepted
    => PatientWarnings(result.warnings) =
          IF \E row \in Rows(before.care_plans) : row.patient_mrn = req.patient_mrn
          THEN <<MrnWarning(req)>>
          ELSE IF \E row \in Rows(before.care_plans) : SamePatientName(row, req)
          THEN <<NameWarning(req)>>
          ELSE <<>>

\* a Submission of an earlier day with the request's MRN under another name
HasEarlierSameMrnOtherName ==
    \E row \in Rows(before.care_plans) :
        /\ row.patient_mrn = req.patient_mrn
        /\ ~SamePatientName(row, req)
        /\ row.created_at < today

(***************************************************************************)
(* C7 as claimed: a request accepted on a later day than a Submission with *)
(* the same MRN and a different patient name carries exactly one warning,  *)
(* the MRN warning.                                                        *)
(***************************************************************************)
C7_ExactlyOneWarning ==
    (Accepted /\ HasEarlierSameMrnOtherName)
    => result.warnings = <<MrnWarning(req)>>

(***************************************************************************)
(* C7 as amended: such a request carries the MRN warning first and never   *)
(* the name warning; the MRN warning is the only one exactly when no       *)
(* Submission of an earlier day has the same MRN and medication name, and  *)
(* otherwise the previous-date warning follows it.                         *)
(***************************************************************************)
C7_MrnWarningNoNameWarning ==
    (Accepted /\ HasEarlierSameMrnOtherName)
    => /\ ~Warned(NameWarning(req))
       /\ result.warnings =
             IF HasPreviousOrder
             THEN <<MrnWarning(req), PreviousWarning(req)>>
             ELSE <<MrnWarning(req)>>

\* such a request, for another medication, was accepted with the MRN
\* warning alone
C7_Witness ==
    /\ Accepted
    /\ HasEarlierSameMrnOtherName
    /\ ~HasPreviousOrder
    /\ result.warnings = <<MrnWarning(req)>>

(***************************************************************************)
(* C8: from the empty store, (1) John Doe / Dr. Smith / 1234567890 /       *)
(* 123456 / E11.9 / Humira is accepted with no warnings and id 1; (2) the  *)
(* same payload again on that day is refused with DuplicateSubmission, 409,*)
(* and adds nothing; (3) John Doe / ... / 999888 / E11.9 / Ozempic is then *)
(* accepted with exactly one warning, the name warning for John Doe.       *)
(* (Acceptance is of the requests whose plan the generator produced.)      *)
(***************************************************************************)
ScenarioFirst ==
    Request(John, Doe, DrSmith, "1234567890", "123456", "E11.9", "Humira")

ScenarioThird ==
    Request(John, Doe, DrSmith, "1234567890", "999888", "E11.9", "Ozempic")

\* the tables hold what the first step of the scenario left, and nothing else
AfterScenarioFirst ==
    /\ before.care_plans = insert_care_plan(<<>>, today, ScenarioFirst, GeneratedText)
    /\ before.providers = insert_provider(<<>>, today, DrSmith, "1234567890")

C10_WarningsOrder ==
    Accepted
    => /\ \E patient \in {<<>>, <<MrnWarning(req)>>, <<NameWarning(req)>>},
             previous \in {<<>>, <<PreviousWarning(req)>>} :
             result.warnings = patient \o previous
       /\ Len(result.warnings) <= 2
       /\ response.warnings = result.warnings

\* both warnings were given
C10_Witness ==
    /\ Accepted
    /\ Len(response.warnings) = 2
    /\ response.warnings[1].kind = "mrn_exists"
    /\ response.warnings[2].kind = "previous_date"


(***************************************************************************)
(* C11, as stated: when the submitted NPI is registered to a different     *)
(* name and the submitted name is also registered under a different NPI,   *)
(* the request is refused with the NPI-direction reason ("NPI registered   *)
(* to different provider name"), the NPI direction being evaluated first.  *)
(* (A request refused as a duplicate never reaches the provider check.)    *)
(***************************************************************************)
\* the submitted NPI is registered to a name that differs beyond case
NpiRegisteredToOtherName ==
    \E row \in Rows(before.providers) :
        /\ row.npi = req.referring_provider_npi
        /\ ~EqualIgnoringCase(row.name, req.referring_provider)

\* the submitted name, up to case, is registered under another NPI
NameRegisteredWithOtherNpi ==
    \E row \in Rows(before.providers) :
        /\ EqualIgnoringCase(row.name, req.referring_provider)
        /\ row.npi # req.referring_provider_npi

\* the name lookup finds the submitted name under another NPI
NameFoundWithOtherNpi ==
    \E row \in Rows(before.providers) :
        /\ SqlLower(row.name) = SqlLower(req.referring_provider)
        /\ row.npi # req.referring_provider_npi

BothDirectionsConflict ==
    /\ Answered
    /\ result.raised # "DuplicateSubmissionError"
    /\ NpiRegisteredToOtherName
    /\ NameFoundWithOtherNpi

C11_NpiDirectionFirst ==
    (/\ Answered
     /\ result.raised # "DuplicateSubmissionError"
     /\ NpiRegisteredToOtherName
     /\ NameRegisteredWithOtherNpi)
    => /\ result.raised = "ProviderConflictError"
       /\ result.reason = "npi_registered_to_other_name"

(***************************************************************************)
(* C11, amended: the name direction is evaluated first.  When the          *)
(* submitted NPI is registered to a different name and the name lookup     *)
(* finds the submitted name under a different NPI, the request is refused  *)
(* with the name-direction reason ("provider name registered under         *)
(* different NPI"), status 409.                                            *)
(***************************************************************************)
C11_NameDirectionFirst ==
    BothDirectionsConflict
    => /\ result.raised = "ProviderConflictError"
       /\ result.reason = "name_registered_with_other_npi"
       /\ response.status = 409
       /\ response.errors = <<"name_registered_with_other_npi">>

\* a request whose name and NPI belong to two different registered
\* providers has been refused
C11_Witness ==
    /\ BothDirectionsConflict
    /\ Len(before.providers) = 2
    /\ result.reason = "name_registered_with_other_npi"

(***************************************************************************)
(* Vocabulary of the validation properties.                                *)
(***************************************************************************)
\* the constructor has run on the form
Validated == result.raised \in {"none", "ValidationError"}

\* the errors reported for one field
ErrorsAt(loc) == SelectSeq(result.errors, LAMBDA e : e.loc = loc)

OnlyDigits(v) == \A i \in 1..Len(v) : IsDigit(v[i])

IsLetter(c) == (c >= 65 /\ c <= 90) \/ (c >= 97 /\ c <= 122)

\* one letter, two digits, and optionally a dot and 1 to 4 digits; nothing
\* before or after
StrictCode(v) ==
    /\ Len(v) \in {3, 5, 6, 7, 8}
    /\ IsLetter(v[1])
    /\ IsDecimal(v[2]) /\ IsDecimal(v[3])
    /\ Len(v) > 3 => (v[4] = 46 /\ \A i \in 5..Len(v) : IsDecimal(v[i]))

UpperAscii(v) ==
    [i \in 1..Len(v) |-> IF v[i] >= 97 /\ v[i] <= 122 THEN v[i] - 32 ELSE v[i]]

(***************************************************************************)
(* C12: a string is accepted as patient MRN exactly when it has 6          *)
(* characters, all digits, and as provider NPI exactly when it has 10      *)
(* characters, all digits; a rejected value of the wrong length gets a     *)
(* length error and a rejected value of the right length the non-digit     *)
(* error, and the two messages differ.                                     *)
(***************************************************************************)
C12_MrnAndNpiAccepted ==
    Validated
    => /\ ErrorsAt("patient_mrn") = <<>>
          <=> (Len(req.patient_mrn) = MrnLength /\ OnlyDigits(req.patient_mrn))
       /\ ErrorsAt("referring_provider_npi") = <<>>
          <=> (/\ Len(req.referring_provider_npi) = NpiLength
               /\ OnlyDigits(req.referring_provider_npi))
       /\ \A e \in Rows(ErrorsAt("patient_mrn")) :
             IF Len(req.patient_mrn) # MrnLength
             THEN e.msg \in {TooShort(MrnLength), TooLong(MrnLength)}
             ELSE e.msg = "Value error, MRN must contain only digits"
       /\ \A e \in Rows(ErrorsAt("referring_provider_npi")) :
             IF Len(req.referring_provider_npi) # NpiLength
             THEN e.msg \in {TooShort(NpiLength), TooLong(NpiLength)}
             ELSE e.msg = "Value error, NPI must contain only digits"

\* an MRN of 6 characters, one of them a letter, has been rejected with the
\* non-digit error
C12_Witness ==
    /\ result.raised = "ValidationError"
    /\ Len(req.patient_mrn) = MrnLength
    /\ \E i \in 1..MrnLength : req.patient_mrn[i] = 65
    /\ ErrorsAt("patient_mrn") # <<>>
    /\ ErrorsAt("patient_mrn")[1].msg = "Value error, MRN must contain only digits"

(***************************************************************************)
(* C13: a string is accepted as primary diagnosis exactly when it is one   *)
(* letter, two digits and optionally a dot and 1 to 4 digits, in either    *)
(* case, with nothing before or after, and the accepted code is stored     *)
(* uppercased; a string given as the only additional diagnosis is          *)
(* accepted exactly when, trimmed, it is empty or such a code.             *)
(***************************************************************************)
C13_DiagnosisCodeAccepted ==
    Validated
    => /\ ErrorsAt("primary_diagnosis") = <<>>
          <=> StrictCode(req.primary_diagnosis)
       /\ result.raised = "none"
          => result.data.primary_diagnosis = UpperAscii(req.primary_diagnosis)
       /\ (\A i \in 1..Len(req.additional_diagnoses.str) :
              req.additional_diagnoses.str[i] # 44)
          => (ErrorsAt("additional_diagnoses") = <<>>
              <=> \/ strip(req.additional_diagnoses.str) = <<>>
                  \/ StrictCode(strip(req.additional_diagnoses.str)))

(***************************************************************************)
(* C14: validating the fields of a validated request again succeeds and    *)
(* gives a request equal to it in every field; the validated request       *)
(* holds the diagnosis codes uppercased, the list fields as lists, and     *)
(* the other fields as submitted.                                          *)
(***************************************************************************)
C14_ValidationIdempotent ==
    (Validated /\ result.raised = "none")
    => /\ result.again # NoResult
          => (result.again.errors = <<>> /\ result.again.data = result.data)
       /\ result.data.primary_diagnosis = upper(req.primary_diagnosis)
       /\ \A i \in 1..Len(result.data.additional_diagnoses) :
             result.data.additional_diagnoses[i]
                 = upper(result.data.additional_diagnoses[i])
       /\ \A loc \in {"patient_first_name", "patient_last_name",
                      "referring_provider", "referring_provider_npi",
                      "patient_mrn", "medication_name", "patient_records"} :
             result.data[loc] = req[loc]

\* a request submitted with a lower-case additional diagnosis has been
\* validated again
C14_Witness ==
    /\ Validated
    /\ result.raised = "none"
    /\ result.again # NoResult
    /\ Len(result.data.additional_diagnoses) >= 2
    /\ \E i \in 1..Len(req.additional_diagnoses.str) :
          req.additional_diagnoses.str[i] = 101

(***************************************************************************)
(* C15: additional diagnoses given as a comma-separated string are split   *)
(* at the commas, each segment trimmed, empty segments dropped, the rest   *)
(* kept in order with their duplicates and checked one by one; if any      *)
(* fails the code pattern the request is rejected with an error naming     *)
(* every invalid segment, otherwise the field is the list of the           *)
(* uppercased segments, the empty list for an empty input.                 *)
(***************************************************************************)
\* the positions that delimit the segments of v: before the start, the
\* commas, after the end
Cuts(v) == {0, Len(v) + 1} \cup {i \in 1..Len(v) : v[i] = 44}

\* the segment that starts after cut c
SegmentAfter(v, c) ==
    SubSeq(v, c + 1, (CHOOSE d \in Cuts(v) :
                         d > c /\ \A e \in Cuts(v) : e > c => d <= e) - 1)

RECURSIVE Trim(_)
Trim(v) ==
    IF v = <<>> THEN v
    ELSE IF IsSpace(Head(v)) THEN Trim(Tail(v))
    ELSE IF IsSpace(v[Len(v)]) THEN Trim(SubSeq(v, 1, Len(v) - 1))
    ELSE v

\* the trimmed non-empty segments of v, in order
TrimmedSegments(v) ==
    LET starts == Cuts(v) \ {Len(v) + 1}
        nth(k) == CHOOSE c \in starts :
                      Cardinality({d \in starts : d < c}) = k - 1
        all == [k \in 1..Cardinality(starts) |-> Trim(SegmentAfter(v, nth(k)))]
    IN  SelectSeq(all, LAMBDA seg : seg # <<>>)

Submitted == result.raised \notin {"idle", "export"}

Exported == result.raised = "export"

\* the upload or a field of the form is invalid
FailsValidation ==
    LET records == combined_records(req.patient_records,
                                    req.patient_records_file)
    IN  \/ records.msg # ""
        \/ CarePlanRequest([req EXCEPT !.patient_records = records.value]).errors
               # <<>>

\* the store, as the request found it, blocks the validated request
BlockedByStore ==
    \/ check_blocking_duplicate(before.care_plans, today, result.data) # "none"
    \/ check_blocking_provider_conflict(
           before.providers, result.data.referring_provider,
           result.data.referring_provider_npi) # "none"

C17_Export ==
    Exported
    => /\ TablesUntouched
       /\ care_plans = <<>> => response.status = 404
       /\ care_plans # <<>>
          => /\ response.status = 200
             /\ response.header =
                    <<"id", "patient_first_name", "patient_last_name",
                      "patient_mrn", "referring_provider",
                      "referring_provider_npi", "primary_diagnosis",
                      "medication_name", "additional_diagnoses",
                      "medication_history", "patient_records",
                      "generated_plan", "created_at">>
             /\ Len(response.rows) = Len(care_plans)
             /\ \A row \in Rows(care_plans) :
                   \E i \in 1..Len(response.rows) :
                      /\ Len(response.rows[i]) = 13
                      /\ response.rows[i][1] = row.id
                      /\ response.rows[i][4] = row.patient_mrn
                      /\ response.rows[i][8] = row.medication_name
                      /\ response.rows[i][9] = row.additional_diagnoses
                      /\ response.rows[i][13] = row.created_at
             /\ \A i, j \in 1..Len(response.rows) :
                   i < j => response.rows[i][13] >= response.rows[j][13]

\* Submissions of two days have been exported
C17_Witness ==
    /\ Exported
    /\ response.status = 200
    /\ Len(response.rows) = 2
    /\ response.rows[1][13] > response.rows[2][13]

(***************************************************************************)
(* Vocabulary of the concurrent requests.                                  *)
(***************************************************************************)
\* worker p has run create_care_plan to its return
Returned(p) == result[p].pc = "done" /\ result[p].raised = "none"

\* the row the store holds under the id that worker p was given
RowOf(p) == {row \in Rows(care_plans) : row.id = result[p].id}

SameOrder(a, b) ==
    /\ EqualIgnoringCase(a.patient_first_name, b.patient_first_name)
    /\ EqualIgnoringCase(a.patient_last_name, b.patient_last_name)
    /\ a.patient_mrn = b.patient_mrn
    /\ a.medication_name = b.medication_name

NpiPresent(npi) == \E row \in Rows(providers) : row.npi = npi

C19_InsertIfAbsent ==
    [][/\ \A i, j \in 1..Len(providers') :
             providers'[i].npi = providers'[j].npi => i = j
       /\ Len(providers') >= Len(providers)
       /\ \A i \in 1..Len(providers) : providers'[i] = providers[i]
       /\ \A p \in Procs :
             (result[p].pc = "insert_provider" /\ result'[p] # result[p]) =>
                /\ result'[p].pc = "insert_care_plan"
                /\ result'[p].raised = "none"
                /\ IF NpiPresent(req[p].referring_provider_npi)
                   THEN providers' = providers
                   ELSE /\ Len(providers') = Len(providers) + 1
                        /\ providers'[Len(providers')].name =
                              req[p].referring_provider
                        /\ providers'[Len(providers')].npi =
                              req[p].referring_provider_npi
                        /\ providers'[Len(providers')].created_at = today]_vars

\* a worker is past its Provider insert and the row of its NPI carries the
\* name and the day of the request that wrote first
C19_Witness ==
    \E p \in Procs :
        /\ result[p].pc = "insert_care_plan"
        /\ \E row \in Rows(providers) :
              /\ row.npi = req[p].referring_provider_npi
              /\ ~EqualIgnoringCase(row.name, req[p].referring_provider)
              /\ row.created_at < today

(***************************************************************************)
(* C20: after any request, also one whose Submission insert failed with a  *)
(* storage error after its Provider insert, the NPI of every Provider      *)
(* record is the referring NPI of some persisted Submission.               *)
(***************************************************************************)
C20_ProviderHasSubmission ==
    \A p \in Rows(providers) :
        \E row \in Rows(care_plans) : row.referring_provider_npi = p.npi

(***************************************************************************)
(* C21: in every state reached by concurrent requests, whatever the        *)
(* overlap of their provider-conflict checks and Provider inserts, the     *)
(* Provider rows pair names (up to case) and NPIs one to one: two rows     *)
(* with one name carry one NPI, and two rows with one NPI carry one name.  *)
(***************************************************************************)
C21_ProvidersInjectiveConcurrently ==
    \A i, j \in 1..Len(providers) :
        /\ EqualIgnoringCase(providers[i].name, providers[j].name)
              => providers[i].npi = providers[j].npi
        /\ providers[i].npi = providers[j].npi
              => EqualIgnoringCase(providers[i].name, providers[j].name)

=============================================================================
